---- MODULE Spec2Model ----
(***************************************************************************)
(* Model of router/src/route.rs: compiling a route template such as        *)
(* /post/(id) into segment descriptors (Route::parse,                      *)
(* parse_route_segments), and the formatter, matcher steps and error type  *)
(* derived from the descriptors.                                           *)
(*                                                                         *)
(* Text is a sequence of one-character strings, so that splitting,         *)
(* slicing and formatting are computed character by character as the code  *)
(* computes them.  Rust indices are 0-based and end-exclusive; s[a..b] is  *)
(* SubSeq(s, a + 1, b).                                                    *)
(***************************************************************************)
EXTENDS Integers, Sequences, FiniteSets, TLC

VARIABLES
    pc,       \* position in the life of one route declaration
    varient,  \* the syn::Variant handed to Route::parse
    result,   \* what Route::parse returned: the Route, or the syn::Error
    errors,   \* the cases of the enum generated by Route::error_type
    steps,    \* the matching steps generated by RouteSegment::try_parse
    values,   \* the field values bound by the display_match pattern
    out,      \* the text written to the formatter f so far
    wcur,     \* number of write_segment statements already executed
    path,     \* the observed path segments handed to the matcher
    cursor,   \* number of matching steps already passed
    bound,    \* the values bound by the matching steps passed so far
    outcome,  \* the matcher's result
    module    \* the #[path] emitted by Route::to_tokens

vars ==
    <<pc, varient, result, errors, steps, values, out, wcur, path, cursor,
      bound, outcome, module>>

(***************************************************************************)
(* Bounds of the model.                                                    *)
(***************************************************************************)
\* '/'-separated elements of a template, the one before the first '/' included
MaxElems == 3
\* observed path segments handed to the matcher
MaxPath == 3
\* descriptors of a Route built directly from RouteSegment values
MaxSegs == 2

(***************************************************************************)
(* Text literals of the source.                                            *)
(***************************************************************************)
STR_ParseError ==
    <<"P", "a", "r", "s", "e", "E", "r", "r", "o", "r">>

STR_StaticSegment ==
    <<"S", "t", "a", "t", "i", "c", "S", "e", "g", "m", "e", "n", "t">>

STR_ExtraSegments ==
    <<"E", "x", "t", "r", "a", "S", "e", "g", "m", "e", "n", "t", "s">>

STR_rs ==
    <<".", "r", "s">>

MSG_NoAttr ==
    <<"R", "o", "u", "t", "a", "b", "l", "e", " ", "v", "a", "r", "i", "a",
      "n", "t", "s", " ", "m", "u", "s", "t", " ", "h", "a", "v", "e", " ",
      "a", " ", "#", "[", "r", "o", "u", "t", "e", "(", ".", ".", ".", ")",
      "]", " ", "a", "t", "t", "r", "i", "b", "u", "t", "e">>

MSG_ExpectedLit ==
    <<"e", "x", "p", "e", "c", "t", "e", "d", " ", "s", "t", "r", "i", "n",
      "g", " ", "l", "i", "t", "e", "r", "a", "l">>

MSG_StartSlash ==
    <<"R", "o", "u", "t", "e", "s", " ", "s", "h", "o", "u", "l", "d", " ",
      "s", "t", "a", "r", "t", " ", "w", "i", "t", "h", " ", "/", ".", " ",
      "E", "r", "r", "o", "r", " ", "f", "o", "u", "n", "d", " ", "i", "n",
      " ", "t", "h", "e", " ", "r", "o", "u", "t", "e", " ", "'">>

MSG_NoField ==
    <<"C", "o", "u", "l", "d", " ", "n", "o", "t", " ", "f", "i", "n", "d",
      " ", "a", " ", "f", "i", "e", "l", "d", " ", "w", "i", "t", "h", " ",
      "t", "h", "e", " ", "n", "a", "m", "e", " ", "'">>

MSG_InVariant ==
    <<"'", " ", "i", "n", " ", "t", "h", "e", " ", "v", "a", "r", "i", "a",
      "n", "t", " ", "'">>

MSG_CatchAllLast ==
    <<"C", "a", "t", "c", "h", "-", "a", "l", "l", " ", "r", "o", "u", "t",
      "e", " ", "s", "e", "g", "m", "e", "n", "t", "s", " ", "m", "u", "s",
      "t", " ", "b", "e", " ", "t", "h", "e", " ", "l", "a", "s", "t", " ",
      "s", "e", "g", "m", "e", "n", "t", " ", "i", "n", " ", "a", " ", "r",
      "o", "u", "t", "e", ".", " ", "T", "h", "e", " ", "r", "o", "u", "t",
      "e", " ", "s", "e", "g", "m", "e", "n", "t", "s", " ", "a", "f", "t",
      "e", "r", " ", "t", "h", "e", " ", "c", "a", "t", "c", "h", "-", "a",
      "l", "l", " ", "s", "e", "g", "m", "e", "n", "t", " ", "w", "i", "l",
      "l", " ", "n", "e", "v", "e", "r", " ", "b", "e", " ", "m", "a", "t",
      "c", "h", "e", "d", ".">>

Digits == <<"0", "1", "2", "3", "4", "5", "6", "7", "8", "9">>

IsDigit(c) == \E d \in 1..10 : Digits[d] = c

DigitValue(c) == (CHOOSE d \in 1..10 : Digits[d] = c) - 1

\* Display of an unsigned integer ({} in format_ident! and write!)
RECURSIVE Decimal(_)
Decimal(n) ==
    IF n < 10 THEN <<Digits[n + 1]>>
    ELSE Decimal(n \div 10) \o <<Digits[(n % 10) + 1]>>

\* str::starts_with
starts_with(s, p) == Len(s) >= Len(p) /\ SubSeq(s, 1, Len(p)) = p

\* str::ends_with
ends_with(s, p) ==
    Len(s) >= Len(p) /\ SubSeq(s, Len(s) - Len(p) + 1, Len(s)) = p

\* p occurs in s
Contains(s, p) ==
    \E i \in 1..(Len(s) - Len(p) + 1) : SubSeq(s, i, i + Len(p) - 1) = p

\* str::split('/'): the elements between the separators; "" gives <<"">>,
\* "/" gives <<"", "">>
RECURSIVE SplitFrom(_, _, _)
SplitFrom(s, i, cur) ==
    IF i > Len(s) THEN <<cur>>
    ELSE IF s[i] = "/" THEN <<cur>> \o SplitFrom(s, i + 1, <<>>)
    ELSE SplitFrom(s, i + 1, Append(cur, s[i]))

split(s) == SplitFrom(s, 1, <<>>)

(***************************************************************************)
(* The declarations: variants, their fields and #[route] attributes.       *)
(***************************************************************************)
N_id == <<"i", "d">>
N_name == <<"n", "a", "m", "e">>
N_zz == <<"z", "z">>
N_StaticSegment0 == STR_StaticSegment \o <<"0">>
L_post == <<"p", "o", "s", "t">>

\* the field lists of the two variants the model declares:
\*   Post { id: u8, name: String }   and   Page { StaticSegment0: String }
PostFields == <<[ident |-> N_id, ty |-> "u8"], [ident |-> N_name, ty |-> "String"]>>

PageFields == <<[ident |-> N_StaticSegment0, ty |-> "String"]>>

Decls ==
    { [ident |-> <<"P", "o", "s", "t">>, fields |-> PostFields],
      [ident |-> <<"P", "a", "g", "e">>, fields |-> PageFields] }

Dyn(n) == <<"(">> \o n \o <<")">>

Spread(n) == <<"(", ".", ".", ".">> \o n \o <<")">>

\* the '/'-separated elements templates are made of
Elements ==
    { <<>>, L_post, Dyn(N_id), Dyn(N_name), Dyn(N_zz), Spread(N_name),
      Dyn(N_StaticSegment0) }

RECURSIVE JoinSlash(_)
JoinSlash(es) ==
    IF Len(es) = 1 THEN es[1]
    ELSE es[1] \o <<"/">> \o JoinSlash(Tail(es))

\* every text whose '/'-separated elements are in Elements, at most MaxElems
\* of them: the empty text, texts without a leading '/', "/", trailing slashes
Templates ==
    { JoinSlash(es) : es \in UNION { [1..n -> Elements] : n \in 1..MaxElems } }

\* the argument of the #[route(...)] attribute: a string literal or not
RouteAttrs ==
    { <<>>, <<[path |-> "route", arg |-> [kind |-> "Other"]]>> }
    \cup { <<[path |-> "route", arg |-> [kind |-> "LitStr", value |-> t]]>> :
             t \in Templates }

Variants ==
    { [ident |-> d.ident, fields |-> d.fields, attrs |-> a] :
        d \in Decls, a \in RouteAttrs }

(***************************************************************************)
(* RouteSegment (lines 221-226) and syn::Result.                           *)
(***************************************************************************)
Static(segment) == [kind |-> "Static", segment |-> segment]

Dynamic(ident, ty) == [kind |-> "Dynamic", ident |-> ident, ty |-> ty]

CatchAll(ident, ty) == [kind |-> "CatchAll", ident |-> ident, ty |-> ty]

Ok(v) == [kind |-> "Ok", value |-> v]

Err(span, message) == [kind |-> "Err", span |-> span, message |-> message]

NoResult == [kind |-> "None"]

(***************************************************************************)
(* parse_route_segments (lines 149-219).                                   *)
(***************************************************************************)
\* varient.fields.iter().find(...): the first field so named, as <<field>>,
\* or <<>> when there is none
find_field(v, ident) ==
    LET hits == { i \in 1..Len(v.fields) : v.fields[i].ident = ident }
    IN  IF hits = {} THEN <<>>
        ELSE <<v.fields[CHOOSE i \in hits : \A j \in hits : i <= j]>>

\* the else branch of the lookup: return Err(...) out of the function
MissingFieldBreak(v, ident, acc) == Ok(acc)

MissingFieldNoVariant(v, ident, acc) ==
    Err("varient", MSG_NoField \o ident \o <<"'">>)

MissingField(v, ident, acc) ==
    Err("varient", MSG_NoField \o ident \o MSG_InVariant \o v.ident \o <<"'">>)

\* the while-let loop over the remaining elements of the split iterator
RECURSIVE ParseLoop(_, _, _, _)
ParseLoop(v, elems, i, acc) ==
    IF i > Len(elems) THEN Ok(acc)
    ELSE
        LET segment == elems[i] IN
        IF starts_with(segment, <<"(">>) /\ ends_with(segment, <<")">>) THEN
            LET spread == starts_with(segment, <<"(", ".", ".", ".">>)
                ident == IF spread THEN SubSeq(segment, 4, Len(segment) - 1)
                         ELSE SubSeq(segment, 2, Len(segment) - 1)
                field == find_field(v, ident)
            IN  IF field = <<>> THEN MissingField(v, ident, acc)
                ELSE IF spread THEN
                    IF i + 1 <= Len(elems) THEN Err("route", MSG_CatchAllLast)
                    ELSE Ok(Append(acc, CatchAll(ident, field[1].ty)))
                ELSE ParseLoop(v, elems, i + 1,
                               Append(acc, Dynamic(ident, field[1].ty)))
        ELSE ParseLoop(v, elems, i + 1, Append(acc, Static(segment)))

parse_route_segments(v, route) ==
    LET elems == split(route) IN
    IF elems[1] # <<>> THEN
        Err("varient", MSG_StartSlash \o route \o <<"'">>)
    ELSE ParseLoop(v, elems, 2, <<>>)

\* Route::parse (lines 14-36)
RouteParse(input) ==
    LET attr == SelectSeq(input.attrs, LAMBDA a : a.path = "route") IN
    IF attr = <<>> THEN Err("input", MSG_NoAttr)
    ELSE IF attr[1].arg.kind # "LitStr" THEN Err("attr", MSG_ExpectedLit)
    ELSE
        LET route == attr[1].arg.value
            segs == parse_route_segments(input, route)
        IN  IF segs.kind = "Err" THEN segs
            ELSE Ok([route_name |-> input.ident, route |-> route,
                     route_segments |-> segs.value])

(***************************************************************************)
(* Field types: their values, Display and FromStr.  A value carries its    *)
(* type: <<"u8", n>> or <<"String", text>>.                                *)
(***************************************************************************)
U8Max == (2 ^ 8) - 1

U8(n) == <<"u8", n>>

Str(s) == <<"String", s>>

U8Values == { U8(0), U8(7), U8(U8Max) }

StringValues == { Str(<<>>), Str(L_post), Str(<<"a", "/", "b">>) }

TypeValues(ty) == IF ty = "u8" THEN U8Values ELSE StringValues

\* <T as Display>::fmt, reached through {} in write!
ToText(v) == IF v[1] = "u8" THEN Decimal(v[2]) ELSE v[2]

\* the digit loop of <u8 as FromStr>::from_str
RECURSIVE U8Digits(_, _, _)
U8Digits(s, i, acc) ==
    IF i > Len(s) THEN Ok(U8(acc))
    ELSE IF ~IsDigit(s[i]) THEN [kind |-> "Err", error |-> "InvalidDigit"]
    ELSE IF acc * 10 + DigitValue(s[i]) > U8Max
         THEN [kind |-> "Err", error |-> "PosOverflow"]
    ELSE U8Digits(s, i + 1, acc * 10 + DigitValue(s[i]))

\* <T as FromStr>::from_str for the field types of the declarations
from_str(ty, s) ==
    IF ty = "String" THEN Ok(Str(s))
    ELSE IF s = <<>> THEN [kind |-> "Err", error |-> "Empty"]
    ELSE IF s = <<"+">> \/ s = <<"-">>
         THEN [kind |-> "Err", error |-> "InvalidDigit"]
    ELSE IF s[1] = "+" THEN U8Digits(s, 2, 0)
    ELSE U8Digits(s, 1, 0)

(***************************************************************************)
(* RouteSegment's methods (lines 228-285).                                 *)
(***************************************************************************)
\* RouteSegment::name: <<ident>> for Some(ident), <<>> for None
name(seg) == IF seg.kind = "Static" THEN <<>> ELSE <<seg.ident>>

static_segment_idx(idx) == STR_StaticSegment \o Decimal(idx) \o STR_ParseError

error_name(seg, idx) ==
    IF seg.kind = "Static" THEN static_segment_idx(idx)
    ELSE seg.ident \o STR_ParseError

\* the text one generated write!(f, "/{}", ..) statement appends to f, the
\* names of the pattern being bound to vals
write_segmentNoSlash(seg, vals) ==
    IF seg.kind = "Static" THEN seg.segment ELSE ToText(vals[seg.ident])

write_segmentNoLiteral(seg, vals) ==
    <<"/">> \o (IF seg.kind = "Static" THEN <<>> ELSE ToText(vals[seg.ident]))

write_segment(seg, vals) ==
    <<"/">> \o (IF seg.kind = "Static" THEN seg.segment
                ELSE ToText(vals[seg.ident]))

\* try_parse: the generated statement `let parsed = ...;`, or the panic of
\* todo!()
try_parseWrongCase(seg, idx) ==
    IF seg.kind = "Static"
    THEN [kind |-> "Static", segment |-> seg.segment,
          error_name |-> error_name(seg, idx)]
    ELSE IF seg.kind = "Dynamic"
    THEN [kind |-> "Dynamic", ty |-> seg.ty,
          error_name |-> static_segment_idx(idx)]
    ELSE [kind |-> "Panic"]

try_parse(seg, idx) ==
    IF seg.kind = "Static"
    THEN [kind |-> "Static", segment |-> seg.segment,
          error_name |-> error_name(seg, idx)]
    ELSE IF seg.kind = "Dynamic"
    THEN [kind |-> "Dynamic", ty |-> seg.ty,
          error_name |-> error_name(seg, idx)]
    ELSE [kind |-> "Panic"]

\* what a generated statement computes into `parsed` for the observed segment
RunStepStaticAlwaysOk(step, segment) ==
    IF step.kind = "Static" THEN Ok(<<>>)
    ELSE
        LET r == from_str(step.ty, segment) IN
        IF r.kind = "Ok" THEN r
        ELSE [kind |-> "Err",
              error |-> [case |-> step.error_name, payload |-> <<r.error>>]]

RunStep(step, segment) ==
    IF step.kind = "Static" THEN
        IF segment = step.segment THEN Ok(<<>>)
        ELSE [kind |-> "Err",
              error |-> [case |-> step.error_name, payload |-> <<>>]]
    ELSE
        LET r == from_str(step.ty, segment) IN
        IF r.kind = "Ok" THEN r
        ELSE [kind |-> "Err",
              error |-> [case |-> step.error_name, payload |-> <<r.error>>]]

(***************************************************************************)
(* Route's methods (lines 38-147).                                         *)
(***************************************************************************)
\* Route::error_type: the cases of the generated enum, ExtraSegments first
error_type(route) ==
    <<[case |-> STR_ExtraSegments, payload |-> <<"String">>]>> \o
    [i \in 1..Len(route.route_segments) |->
        LET segment == route.route_segments[i] IN
        IF segment.kind = "Static"
        THEN [case |-> error_name(segment, i - 1), payload |-> <<>>]
        ELSE [case |-> error_name(segment, i - 1), payload |-> <<segment.ty>>]]

\* the names the display_match pattern binds
dynamic_segments(route) ==
    { n \in { seg.ident : seg \in
                 { route.route_segments[i] :
                     i \in { j \in 1..Len(route.route_segments) :
                               route.route_segments[j].kind # "Static" } } } :
        \E i \in 1..Len(route.route_segments) :
            name(route.route_segments[i]) = <<n>> }

TypeOfName(route, n) ==
    LET i == CHOOSE j \in 1..Len(route.route_segments) :
                 /\ route.route_segments[j].kind # "Static"
                 /\ route.route_segments[j].ident = n
    IN  route.route_segments[i].ty

\* the field values a value of the variant can hold for the bound names
FieldValues(route) ==
    { f \in [dynamic_segments(route) -> U8Values \cup StringValues] :
        \A n \in dynamic_segments(route) : f[n] \in TypeValues(TypeOfName(route, n)) }

\* Route::to_tokens: the #[path] of the route's module
to_tokens(route) ==
    IF Len(route.route) < 1 THEN [kind |-> "Panic"]
    ELSE Ok(SubSeq(route.route, 2, Len(route.route)) \o STR_rs)

(***************************************************************************)
(* The state machine: one declaration is parsed, its error type, matcher   *)
(* and formatter are derived, and the derived routines run.                *)
(***************************************************************************)
Segs == result.value.route_segments

\* the texts observed path segments are drawn from
SegTexts == { <<>>, L_post, <<"7">>, <<"+", "7">>, <<"2", "5", "6">> }

Paths == UNION { [1..n -> SegTexts] : n \in 0..MaxPath }

\* the descriptors a Route built from RouteSegment values can hold
Descriptors ==
    { Static(<<>>), Static(L_post), Dynamic(N_id, "u8"),
      Dynamic(N_name, "String"), CatchAll(N_name, "String") }

SegLists == UNION { [1..n -> Descriptors] : n \in 0..MaxSegs }

Idle ==
    /\ result = NoResult
    /\ errors = <<>>
    /\ steps = NoResult
    /\ values = NoResult
    /\ out = <<>>
    /\ wcur = 0
    /\ path = <<>>
    /\ cursor = 0
    /\ bound = <<>>
    /\ outcome = NoResult
    /\ module = NoResult

\* a variant as the derive macro hands it to Route::parse
Init ==
    /\ pc = "declared"
    /\ varient \in Variants
    /\ Idle

\* a Route put together from RouteSegment values: the struct's and the
\* enum's fields are pub
InitSegments ==
    /\ pc = "constructed"
    /\ varient = [ident |-> <<"P", "o", "s", "t">>, fields |-> PostFields,
                  attrs |-> <<>>]
    /\ \E segs \in SegLists :
           result = Ok([route_name |-> varient.ident, route |-> <<"/">>,
                        route_segments |-> segs])
    /\ errors = <<>>
    /\ steps = NoResult
    /\ values = NoResult
    /\ out = <<>>
    /\ wcur = 0
    /\ path = <<>>
    /\ cursor = 0
    /\ bound = <<>>
    /\ outcome = NoResult
    /\ module = NoResult

Parse ==
    /\ pc = "declared"
    /\ result' = RouteParse(varient)
    /\ pc' = IF result'.kind = "Ok" THEN "constructed" ELSE "rejected"
    /\ UNCHANGED <<varient, errors, steps, values, out, wcur, path, cursor,
                   bound, outcome, module>>

ToTokens ==
    /\ pc = "constructed"
    /\ module' = to_tokens(result.value)
    /\ pc' = "module"
    /\ UNCHANGED <<varient, result, errors, steps, values, out, wcur, path,
                   cursor, bound, outcome>>

ErrorType ==
    /\ pc = "constructed"
    /\ errors' = error_type(result.value)
    /\ pc' = "typed"
    /\ UNCHANGED <<varient, result, steps, values, out, wcur, path, cursor,
                   bound, outcome, module>>

\* the generated Display impl reaches the arm of display_match with the
\* variant's fields bound to vals
Display ==
    /\ pc = "typed"
    /\ \E vals \in FieldValues(result.value) : values' = Ok(vals)
    /\ pc' = "writing"
    /\ UNCHANGED <<varient, result, errors, steps, out, wcur, path, cursor,
                   bound, outcome, module>>

\* one generated write! statement of the arm
WriteSegment ==
    /\ pc = "writing"
    /\ wcur < Len(Segs)
    /\ out' = out \o write_segment(Segs[wcur + 1], values.value)
    /\ wcur' = wcur + 1
    /\ UNCHANGED <<pc, varient, result, errors, steps, values, path, cursor,
                   bound, outcome, module>>

\* the end of the arm
Written ==
    /\ pc = "writing"
    /\ wcur = Len(Segs)
    /\ pc' = "written"
    /\ UNCHANGED <<varient, result, errors, steps, values, out, wcur, path,
                   cursor, bound, outcome, module>>

\* the macro calls try_parse(i, ..) on every descriptor in order; a panic of
\* one call ends the derivation
DeriveMatcher ==
    /\ pc \in {"typed", "written"}
    /\ LET derived == [i \in 1..Len(Segs) |-> try_parse(Segs[i], i - 1)] IN
       IF \E i \in 1..Len(Segs) : derived[i].kind = "Panic"
       THEN steps' = [kind |-> "Panic"] /\ pc' = "aborted"
       ELSE steps' = Ok(derived) /\ pc' = "derived"
    /\ UNCHANGED <<varient, result, errors, values, out, wcur, path, cursor,
                   bound, outcome, module>>

\* the matcher is handed an observed path
Observe ==
    /\ pc = "derived"
    /\ values = NoResult
    /\ \E p \in Paths : path' = p
    /\ pc' = "matching"
    /\ UNCHANGED <<varient, result, errors, steps, values, out, wcur, cursor,
                   bound, outcome, module>>

\* the matcher is handed the formatted text, split on '/', the empty element
\* before the leading '/' skipped
Resplit ==
    /\ pc = "derived"
    /\ values # NoResult
    /\ path' = Tail(split(out))
    /\ pc' = "matching"
    /\ UNCHANGED <<varient, result, errors, steps, values, out, wcur, cursor,
                   bound, outcome, module>>

\* remaining-text of ExtraSegments: "/" before each unconsumed segment
RECURSIVE Remaining(_, _)
Remaining(p, from) ==
    IF from > Len(p) THEN <<>>
    ELSE <<"/">> \o p[from] \o Remaining(p, from + 1)

\* the step of the descriptor at the cursor runs on the next observed segment
MatchStep ==
    /\ pc = "matching"
    /\ cursor < Len(steps.value)
    /\ IF cursor + 1 > Len(path)
       THEN /\ outcome' = [kind |-> "Incomplete"]
            /\ pc' = "matched"
            /\ UNCHANGED <<cursor, bound>>
       ELSE LET parsed == RunStep(steps.value[cursor + 1], path[cursor + 1])
            IN  IF parsed.kind = "Ok"
                THEN /\ cursor' = cursor + 1
                     /\ bound' = IF Segs[cursor + 1].kind = "Static" THEN bound
                                 ELSE Append(bound,
                                             [ident |-> Segs[cursor + 1].ident,
                                              value |-> parsed.value])
                     /\ UNCHANGED <<pc, outcome>>
                ELSE /\ outcome' = [kind |-> "Failed", error |-> parsed.error]
                     /\ pc' = "matched"
                     /\ UNCHANGED <<cursor, bound>>
    /\ UNCHANGED <<varient, result, errors, steps, values, out, wcur, path,
                   module>>

\* every descriptor matched
MatchEnd ==
    /\ pc = "matching"
    /\ cursor = Len(steps.value)
    /\ outcome' = IF Len(path) > cursor
                  THEN [kind |-> "Failed",
                        error |-> [case |-> STR_ExtraSegments,
                                   payload |-> <<Remaining(path, cursor + 1)>>]]
                  ELSE [kind |-> "Matched", fields |-> bound]
    /\ pc' = "matched"
    /\ UNCHANGED <<varient, result, errors, steps, values, out, wcur, path,
                   cursor, bound, module>>

Derived ==
    \/ ToTokens
    \/ ErrorType
    \/ Display
    \/ WriteSegment
    \/ Written
    \/ DeriveMatcher
    \/ Observe
    \/ Resplit
    \/ MatchStep
    \/ MatchEnd

Next == Parse \/ Derived

Spec == Init /\ [][Next]_vars

NextSegments == Derived

SpecSegments == InitSegments /\ [][NextSegments]_vars

(***************************************************************************)
(* Vocabulary of the properties: the template grammar as the               *)
(* specification words it, independent of parse_route_segments.            *)
(***************************************************************************)
HasTemplate ==
    /\ varient.attrs # <<>>
    /\ varient.attrs[1].arg.kind = "LitStr"

Template == varient.attrs[1].arg.value

\* Route::parse has returned for a variant carrying a template
Parsed == pc # "declared" /\ HasTemplate

LeadingSlash(t) == Len(t) >= 1 /\ t[1] = "/"

IsParenToken(e) == Len(e) >= 2 /\ e[1] = "(" /\ e[Len(e)] = ")"

IsCatchAllToken(e) ==
    IsParenToken(e) /\ Len(e) >= 5 /\ SubSeq(e, 2, 4) = <<".", ".", ".">>

IsDynamicToken(e) == IsParenToken(e) /\ ~IsCatchAllToken(e)

\* the bound name: the parentheses and the three-dot marker stripped
TokenName(e) ==
    IF IsCatchAllToken(e) THEN SubSeq(e, 5, Len(e) - 1)
    ELSE SubSeq(e, 2, Len(e) - 1)

Declared(n) == \E i \in 1..Len(varient.fields) : varient.fields[i].ident = n

DeclaredType(n) ==
    varient.fields[CHOOSE i \in 1..Len(varient.fields) :
                       varient.fields[i].ident = n].ty

Unresolved(e) == IsParenToken(e) /\ ~Declared(TokenName(e))

\* C1: a template, starting with '/', whose last token is (...name) with a
\* declared field `name` and whose earlier tokens are literals or dynamic
\* tokens of declared fields, parses, and its last descriptor is
\* CatchAll(name, T), T the declared type of `name`.
C1_CatchAllBinds ==
    Parsed =>
        LET elems == split(Template)
            n == Len(elems)
        IN  ( /\ LeadingSlash(Template)
              /\ n >= 2
              /\ IsCatchAllToken(elems[n])
              /\ Declared(TokenName(elems[n]))
              /\ \A k \in 2..(n - 1) :
                     /\ ~IsCatchAllToken(elems[k])
                     /\ ~Unresolved(elems[k]) )
            => /\ result.kind = "Ok"
               /\ Len(Segs) = n - 1
               /\ Segs[n - 1] = CatchAll(TokenName(elems[n]),
                                         DeclaredType(TokenName(elems[n])))

\* C2: every Route that Route::parse returns has a template whose first
\* character is '/', so that Route::to_tokens can slice it from index 1.
C2_LeadingSlash ==
    result.kind = "Ok" =>
        /\ LeadingSlash(result.value.route)
        /\ module.kind # "Panic"

\* C3: a descriptor list returned by parse_route_segments holds a CatchAll
\* only as its last descriptor (so at most one), and a template in which a
\* catch-all token is followed by a further '/'-separated element, an empty
\* one included, is rejected.
C3_CatchAllLast ==
    /\ result.kind = "Ok" =>
           \A i \in 1..Len(Segs) : Segs[i].kind = "CatchAll" => i = Len(Segs)
    /\ Parsed =>
           LET elems == split(Template) IN
           (\E k \in 2..(Len(elems) - 1) : IsCatchAllToken(elems[k]))
               => result.kind = "Err"

\* a template starting with '/' whose catch-all token names a declared
\* field and is followed by a further element has been rejected
C3_Witness ==
    /\ Parsed
    /\ LeadingSlash(Template)
    /\ result.kind = "Err"
    /\ LET elems == split(Template) IN
       \E k \in 2..(Len(elems) - 1) :
           /\ IsCatchAllToken(elems[k])
           /\ Declared(TokenName(elems[k]))
           /\ \A j \in 2..(k - 1) : ~IsParenToken(elems[j])

\* the first unresolved token of a template, as an index into its elements
FirstUnresolved(elems) ==
    CHOOSE k \in 2..Len(elems) :
        /\ Unresolved(elems[k])
        /\ \A j \in 2..(k - 1) : ~Unresolved(elems[j])

\* C4 as stated: whenever a template holds a parenthesised token whose
\* name is no declared field, parse_route_segments returns an error whose
\* message contains a missing name and the variant's name; and a dynamic
\* token of a declared field yields Dynamic(name, type).
C4_AnyTemplate ==
    Parsed =>
        LET elems == split(Template) IN
        /\ (\E k \in 2..Len(elems) : Unresolved(elems[k])) =>
               /\ result.kind = "Err"
               /\ Contains(result.message, varient.ident)
               /\ \E k \in 2..Len(elems) :
                      /\ Unresolved(elems[k])
                      /\ Contains(result.message, TokenName(elems[k]))
        /\ result.kind = "Ok" =>
               \A k \in 2..Len(elems) :
                   IsDynamicToken(elems[k]) =>
                       Segs[k - 1] = Dynamic(TokenName(elems[k]),
                                             DeclaredType(TokenName(elems[k])))

\* C4 amended: a template that starts with '/' and holds a parenthesised
\* token whose name is no declared field is rejected; when no catch-all
\* token comes before the first such token, the message contains that
\* token's name and the variant's name.  When parse_route_segments
\* succeeds, every dynamic token (name) has yielded Dynamic(name, type).
C4_MissingField ==
    (Parsed /\ LeadingSlash(Template)) =>
        LET elems == split(Template) IN
        /\ (\E k \in 2..Len(elems) : Unresolved(elems[k])) =>
               /\ result.kind = "Err"
               /\ LET k0 == FirstUnresolved(elems) IN
                  (\A j \in 2..(k0 - 1) : ~IsCatchAllToken(elems[j])) =>
                      /\ Contains(result.message, TokenName(elems[k0]))
                      /\ Contains(result.message, varient.ident)
        /\ result.kind = "Ok" =>
               \A k \in 2..Len(elems) :
                   IsDynamicToken(elems[k]) =>
                       Segs[k - 1] = Dynamic(TokenName(elems[k]),
                                             DeclaredType(TokenName(elems[k])))

\* a dynamic token naming no field, after a resolved dynamic token, has
\* been rejected with a message naming it and the variant
C4_Witness ==
    /\ Parsed
    /\ LeadingSlash(Template)
    /\ result.kind = "Err"
    /\ LET elems == split(Template) IN
       /\ Len(elems) >= 3
       /\ IsDynamicToken(elems[2])
       /\ Declared(TokenName(elems[2]))
       /\ IsDynamicToken(elems[3])
       /\ Unresolved(elems[3])
       /\ Contains(result.message, TokenName(elems[3]))
       /\ Contains(result.message, varient.ident)

\* C5: the cases of the error type derived for a Route (one per
\* descriptor, plus ExtraSegments) have pairwise distinct names.
C5_DistinctCases ==
    \A i, j \in 1..Len(errors) : i # j => errors[i].case # errors[j].case

\* the text of every bound value is free of '/'
NoSlashValues ==
    \A n \in DOMAIN values.value : ~Contains(ToText(values.value[n]), <<"/">>)

\* the bindings a match must produce to give back vals
Bindings(segs, vals) ==
    LET named == SelectSeq(segs, LAMBDA s : s.kind # "Static") IN
    [i \in 1..Len(named) |->
        [ident |-> named[i].ident, value |-> vals[named[i].ident]]]

\* C6: for a Route returned by Route::parse and field values whose text
\* holds no '/', formatting the values, splitting the text on '/' and
\* running the matching steps in descriptor order ends in a match that binds
\* exactly the original values.
C6_RoundTrip ==
    (pc = "matched" /\ values # NoResult /\ NoSlashValues) =>
        /\ outcome.kind = "Matched"
        /\ outcome.fields = Bindings(Segs, values.value)

\* a round trip through a literal and a u8 field has ended
C6_Witness ==
    /\ pc = "matched"
    /\ values # NoResult
    /\ NoSlashValues
    /\ Len(Segs) = 2
    /\ Segs[1] = Static(L_post)
    /\ Segs[2] = Dynamic(N_id, "u8")
    /\ values.value[N_id] = U8(U8Max)
    /\ outcome.kind = "Matched"

\* the decimal forms of the numbers a u8 holds
U8Texts == { Decimal(n) : n \in 0..U8Max }

RECURSIVE Zeros(_)
Zeros(k) == IF k = 0 THEN <<>> ELSE <<"0">> \o Zeros(k - 1)

\* the texts that parse as a u8: an optional '+', any number of leading
\* zeros, the decimal form of a number up to 255
IsU8Text(s) ==
    \E sign \in {<<>>, <<"+">>} : \E k \in 0..Len(s) :
        /\ Len(s) > Len(sign) + k
        /\ SubSeq(s, 1, Len(sign) + k) = sign \o Zeros(k)
        /\ SubSeq(s, Len(sign) + k + 1, Len(s)) \in U8Texts

\* descriptor seg rejects the observed segment s
WouldFail(seg, s) ==
    IF seg.kind = "Static" THEN s # seg.segment
    ELSE seg.ty = "u8" /\ ~IsU8Text(s)

\* the descriptors that reject the segment observed at their position
Failing == { j \in 1..Len(Segs) : j <= Len(path) /\ WouldFail(Segs[j], path[j]) }

\* C7: the matcher reports the error case of the first descriptor, in
\* descriptor order, that rejects its observed segment, whatever later
\* descriptors would do; it reports ExtraSegments only when every descriptor
\* matched and input is left.
C7_FirstFailure ==
    pc = "matched" =>
        /\ Failing # {} =>
               LET i == CHOOSE j \in Failing : \A k \in Failing : j <= k IN
               /\ outcome.kind = "Failed"
               /\ cursor = i - 1
               /\ outcome.error.case = errors[i + 1].case
        /\ (outcome.kind = "Failed" /\ outcome.error.case = STR_ExtraSegments) =>
               /\ Failing = {}
               /\ cursor = Len(Segs)
               /\ Len(path) > Len(Segs)

\* a path rejected by the Static descriptor at index 0 and by the Dynamic
\* descriptor at index 1 has been matched
C7_Witness ==
    /\ pc = "matched"
    /\ Len(Segs) = 2
    /\ Segs[1].kind = "Static"
    /\ Segs[2].kind = "Dynamic"
    /\ Failing = {1, 2}
    /\ outcome.kind = "Failed"
    /\ outcome.error.case = static_segment_idx(0)

\* C8: deriving the matcher of a Route with a CatchAll descriptor gives a
\* matching step for it; the derivation never aborts.
C8_CatchAllStep ==
    (steps # NoResult /\ \E i \in 1..Len(Segs) : Segs[i].kind = "CatchAll") =>
        steps.kind = "Ok"

\* the text the formatter owes for the first n descriptors
RECURSIVE Emitted(_, _, _)
Emitted(segs, vals, n) ==
    IF n = 0 THEN <<>>
    ELSE Emitted(segs, vals, n - 1) \o <<"/">> \o
         (IF segs[n].kind = "Static" THEN segs[n].segment
          ELSE ToText(vals[segs[n].ident]))

AllStatic == \A i \in 1..Len(Segs) : Segs[i].kind = "Static"

\* C9: the formatter writes, for each descriptor in order, '/' and then the
\* literal or the text of the bound value, unescaped, and nothing else; the
\* text formatted for the descriptors of a template of literals only is the
\* template.
C9_Formatter ==
    /\ pc \in {"writing", "written"} => out = Emitted(Segs, values.value, wcur)
    /\ (pc = "written" /\ AllStatic) =>
           \A v \in Variants :
               ( /\ v.attrs # <<>>
                 /\ v.attrs[1].arg.kind = "LitStr"
                 /\ parse_route_segments(v, v.attrs[1].arg.value) = Ok(Segs) )
               => out = v.attrs[1].arg.value

\* a literal and a catch-all bound to a text holding '/' have been written
C9_Witness ==
    /\ pc = "written"
    /\ Segs = <<Static(L_post), CatchAll(N_name, "String")>>
    /\ values.value[N_name] = Str(<<"a", "/", "b">>)
    /\ out = <<"/">> \o L_post \o <<"/", "a", "/", "b">>

\* C10: a Static step passes exactly on the literal and fails with the
\* payload-free case StaticSegment<i>ParseError; a Dynamic step fails only
\* with <name>ParseError carrying the type's parse error; the case raised at
\* index i is the case error_type declares for index i.
C10_StepCases ==
    pc \in {"matching", "matched"} =>
        /\ \A j \in 1..cursor :
               Segs[j].kind = "Static" => path[j] = Segs[j].segment
        /\ (outcome.kind = "Failed" /\ cursor < Len(Segs)) =>
               LET seg == Segs[cursor + 1]
                   e == outcome.error
               IN  /\ seg.kind = "Static" =>
                          /\ path[cursor + 1] # seg.segment
                          /\ e = [case |-> STR_StaticSegment \o Decimal(cursor)
                                             \o STR_ParseError,
                                  payload |-> <<>>]
                   /\ seg.kind = "Dynamic" =>
                          /\ e.case = seg.ident \o STR_ParseError
                          /\ Len(e.payload) = 1
                          /\ e.payload[1] \in {"Empty", "InvalidDigit", "PosOverflow"}
                          /\ ~IsU8Text(path[cursor + 1])
                   /\ errors[cursor + 2].case = e.case
                   /\ (errors[cursor + 2].payload = <<>>) <=> (e.payload = <<>>)

\* a Dynamic step has failed on a number too large for its u8 field
C10_Witness ==
    /\ pc = "matched"
    /\ outcome.kind = "Failed"
    /\ cursor < Len(Segs)
    /\ Segs[cursor + 1] = Dynamic(N_id, "u8")
    /\ outcome.error = [case |-> N_id \o STR_ParseError,
                        payload |-> <<"PosOverflow">>]

====
